---- MODULE Spec2Model ----
(***************************************************************************)
(* Model of the two Lambda handlers of amplify/functions:                  *)
(*   hello-world/handler.ts      (the greeting handler)                    *)
(*   todo-processor/resource.ts  (the Todo handler)                        *)
(*                                                                         *)
(* A JavaScript string is a sequence of chunks (TLA+ strings), so that     *)
(* template literals are concatenations and "contains" is decidable.       *)
(* A JavaScript value is a record [t, s, n, b] (type tag, string, number,  *)
(* boolean).  A promise is a record whose field outcome says whether it    *)
(* was fulfilled ("returned") or rejected ("rejected").                    *)
(***************************************************************************)
EXTENDS Integers, Sequences, FiniteSets, TLC

\* Largest value of the millisecond clock (Date.now()).
MaxClock == 1

VARIABLES
    clock,      \* Date.now(), in milliseconds
    invoked,    \* the handler of the last invocation: "none", "hello", "todo"
    lastEvent,      \* the event of the last invocation
    lastResponse,   \* how the promise of the last invocation settled
    createdIds,     \* history: the identifiers returned by successful creates
    idReissued      \* history: a create returned an identifier a second time

vars == <<clock, invoked, lastEvent, lastResponse, createdIds, idReissued>>

-----------------------------------------------------------------------------
(* JavaScript values                                                       *)

Undefined == [t |-> "undefined", s |-> <<>>, n |-> 0, b |-> FALSE]
StrV(s) == [t |-> "string", s |-> s, n |-> 0, b |-> FALSE]
NumV(n) == [t |-> "number", s |-> <<>>, n |-> n, b |-> FALSE]
BoolV(b) == [t |-> "boolean", s |-> <<>>, n |-> 0, b |-> b]

\* ToBoolean: what `!v` and `v || d` test.
Truthy(v) ==
    CASE v.t = "string" -> v.s # <<>>
      [] v.t = "number" -> v.n # 0
      [] v.t = "boolean" -> v.b
      [] v.t = "object" -> TRUE
      [] OTHER -> FALSE

\* a || b
OrElse(a, b) == IF Truthy(a) THEN a ELSE b

DigitChars == <<"0", "1", "2", "3", "4", "5", "6", "7", "8", "9">>

RECURSIVE DecStr(_)
\* Number.prototype.toString() of a non-negative integer.
DecStr(n) ==
    IF n < 10 THEN <<DigitChars[n + 1]>>
    ELSE DecStr(n \div 10) \o <<DigitChars[(n % 10) + 1]>>

\* ToString, as a template literal `${v}` applies it.
ToStr(v) ==
    CASE v.t = "string" -> v.s
      [] v.t = "number" -> DecStr(v.n)
      [] v.t = "boolean" -> IF v.b THEN <<"true">> ELSE <<"false">>
      [] v.t = "null" -> <<"null">>
      [] v.t = "undefined" -> <<"undefined">>
      [] OTHER -> <<"[object Object]">>

\* s contains sub as a contiguous run of chunks.
Contains(s, sub) ==
    \E i \in 1..(Len(s) + 1) :
        /\ i + Len(sub) - 1 <= Len(s)
        /\ \A j \in 1..Len(sub) : s[i + j - 1] = sub[j]

-----------------------------------------------------------------------------
(* JSON.parse                                                              *)

\* A parsed JSON document: threw (SyntaxError), else a value of type t; an
\* object carries the four properties the handlers read (Undefined = absent).
Parsed(t, name, message, content, isDone) ==
    [threw |-> FALSE, t |-> t, name |-> name, message |-> message,
     content |-> content, isDone |-> isDone]

ParsedPrim(t) == Parsed(t, Undefined, Undefined, Undefined, Undefined)
SyntaxError == [ParsedPrim("undefined") EXCEPT !.threw = TRUE]
EmptyObject == ParsedPrim("object")

\* JSON.parse on the request body texts of BodyTexts.
JSONparse(text) ==
    CASE text = "" -> SyntaxError
      [] text = "{" -> SyntaxError
      [] text = "null" -> ParsedPrim("null")
      [] text = "5" -> ParsedPrim("number")
      [] text = "{}" -> EmptyObject
      [] text = "{\"name\":\"\"}" ->
            [EmptyObject EXCEPT !.name = StrV(<<>>)]
      [] text = "{\"name\":\"Bob\",\"message\":\"Hi\"}" ->
            [EmptyObject EXCEPT !.name = StrV(<<"B", "o", "b">>),
                                !.message = StrV(<<"H", "i">>)]
      [] text = "{\"content\":\"\"}" ->
            [EmptyObject EXCEPT !.content = StrV(<<>>)]
      [] text = "{\"content\":5}" ->
            [EmptyObject EXCEPT !.content = NumV(5)]
      [] text = "{\"content\":\"milk\"}" ->
            [EmptyObject EXCEPT !.content = StrV(<<"m", "i", "l", "k">>)]
      [] text = "{\"content\":\"tea\",\"isDone\":true}" ->
            [EmptyObject EXCEPT !.content = StrV(<<"t", "e", "a">>),
                                !.isDone = BoolV(TRUE)]
      [] OTHER -> SyntaxError

\* Reading a property of null (or undefined) throws a TypeError.
ReadThrows(p) == p.t \in {"null", "undefined"}

-----------------------------------------------------------------------------
(* Inputs: APIGatewayProxyEvent                                            *)

HttpMethods == {"GET", "POST", "PUT", "DELETE", "OPTIONS", "PATCH"}

\* event.queryStringParameters: null, {}, {name: ""}, {name: "Bob"}.
NoQuery == [present |-> FALSE, name |-> Undefined]
QueryParams ==
    {NoQuery,
     [present |-> TRUE, name |-> Undefined],
     [present |-> TRUE, name |-> StrV(<<>>)],
     [present |-> TRUE, name |-> StrV(<<"B", "o", "b">>)]}

\* event.pathParameters: null, {}, {id: ""}, {id: "42"}.
NoPath == [present |-> FALSE, id |-> Undefined]
PathParams ==
    {NoPath,
     [present |-> TRUE, id |-> Undefined],
     [present |-> TRUE, id |-> StrV(<<>>)],
     [present |-> TRUE, id |-> StrV(<<"4", "2">>)]}

\* event.body: null or a string.
NoBody == [present |-> FALSE, text |-> ""]
BodyOf(text) == [present |-> TRUE, text |-> text]

HelloBodyTexts ==
    {"", "{", "null", "5", "{}", "{\"name\":\"\"}",
     "{\"name\":\"Bob\",\"message\":\"Hi\"}"}

TodoBodyTexts ==
    {"", "{", "null", "{}", "{\"content\":\"\"}", "{\"content\":5}",
     "{\"content\":\"milk\"}", "{\"content\":\"tea\",\"isDone\":true}"}

Event(m, q, pp, b) ==
    [httpMethod |-> m, queryStringParameters |-> q, pathParameters |-> pp,
     body |-> b]

\* Requests routed to /hello: every method with every query string, and
\* every method with every body.
HelloEvents ==
    {Event(m, q, NoPath, NoBody) : m \in HttpMethods, q \in QueryParams}
    \cup {Event(m, NoQuery, NoPath, BodyOf(t)) :
            m \in HttpMethods, t \in HelloBodyTexts}

\* Requests routed to /todos and /todos/{id}: every method with every path
\* parameter, without a body and with every body.
TodoEvents ==
    {Event(m, NoQuery, pp, b) :
        m \in HttpMethods, pp \in PathParams,
        b \in {NoBody} \cup {BodyOf(t) : t \in TodoBodyTexts}}

\* Math.random(), as the base-36 digits of its fraction.
RandomFractions == {<<"k", "7", "x">>, <<"4">>}

\* !event.body is false: the body is a non-empty string.
BodyTruthy(b) == b.present /\ b.text # ""

\* queryParams?.name and event.pathParameters?.id
OptChain(obj, v) == IF obj.present THEN v ELSE Undefined

-----------------------------------------------------------------------------
(* Responses: APIGatewayProxyResult                                        *)

\* The object handed to JSON.stringify: keys is the set of its defined
\* properties (JSON.stringify writes exactly those); the other fields hold
\* their values.  text = "empty" is the body ''.
JsonBody ==
    [text |-> "json", keys |-> {}, success |-> FALSE, dataKind |-> "absent",
     data |-> <<>>, message |-> <<>>, error |-> <<>>, timestamp |-> <<>>,
     statusCode |-> 0, method |-> <<>>, functionName |-> <<>>,
     receivedData |-> ParsedPrim("undefined")]

EmptyBody == [JsonBody EXCEPT !.text = "empty"]

Headers(allowHeaders, allowMethods) ==
    [contentType |-> "application/json", allowOrigin |-> "*",
     allowHeaders |-> allowHeaders, allowMethods |-> allowMethods]

helloHeaders == Headers("Content-Type", "GET, POST, OPTIONS")
corsHeaders ==
    Headers("Content-Type, Authorization", "GET, POST, PUT, DELETE, OPTIONS")
internalErrorHeaders == Headers("", "")

\* A settled promise of a response.
Returned(statusCode, headers, body) ==
    [outcome |-> "returned", statusCode |-> statusCode, headers |-> headers,
     body |-> body]

\* A promise rejected with a TypeError.
Rejected ==
    [outcome |-> "rejected", statusCode |-> 0, headers |-> internalErrorHeaders,
     body |-> EmptyBody]

\* The response before the first invocation.
NoResponse ==
    [outcome |-> "none", statusCode |-> 0, headers |-> internalErrorHeaders,
     body |-> EmptyBody]

Pad3(n) ==
    IF n < 10 THEN <<"0", "0">> \o DecStr(n)
    ELSE IF n < 100 THEN <<"0">> \o DecStr(n)
    ELSE DecStr(n)

\* new Date().toISOString() at clock value now (milliseconds, now < 1000).
toISOString(now) == <<"1970-01-01T00:00:00.">> \o Pad3(now) \o <<"Z">>

\* process.env.FUNCTION_NAME || 'hello-world'
HelloFunctionName == <<"hello-world">>

-----------------------------------------------------------------------------
(* hello-world/handler.ts                                                  *)

\* The Japanese message literals of the source, in English.
MsgInvalidJson == <<"The request body is not valid JSON">>
MsgInternalError == <<"An internal server error occurred">>
MsgMethodNotAllowed == <<"The method is not allowed">>

hello_createErrorResponse(statusCode, message, now) ==
    Returned(statusCode, helloHeaders,
             [JsonBody EXCEPT !.keys = {"error", "timestamp", "statusCode"},
                              !.error = message,
                              !.timestamp = toISOString(now),
                              !.statusCode = statusCode])

\* handleGetRequest with `??` in place of `||`: an empty name is kept.
handleGetRequest_Nullish(event, now) ==
    LET queryParams == event.queryStringParameters
        name == OptChain(queryParams, queryParams.name)
        userName == IF name.t = "undefined" THEN StrV(<<"World">>) ELSE name
    IN  Returned(200, helloHeaders,
                 [JsonBody EXCEPT
                    !.keys = {"message", "timestamp", "method", "functionName"},
                    !.message = <<"Hello ">> \o ToStr(userName) \o <<"!">>,
                    !.timestamp = toISOString(now),
                    !.method = <<"GET">>,
                    !.functionName = HelloFunctionName])

handleGetRequest(event, now) ==
    LET queryParams == event.queryStringParameters
        userName == OrElse(OptChain(queryParams, queryParams.name),
                           StrV(<<"World">>))
    IN  Returned(200, helloHeaders,
                 [JsonBody EXCEPT
                    !.keys = {"message", "timestamp", "method", "functionName"},
                    !.message = <<"Hello ">> \o ToStr(userName) \o <<"!">>,
                    !.timestamp = toISOString(now),
                    !.method = <<"GET">>,
                    !.functionName = HelloFunctionName])

handlePostRequest(event, now) ==
    LET requestBody == IF BodyTruthy(event.body)
                       THEN JSONparse(event.body.text) ELSE EmptyObject
    IN  IF requestBody.threw
        THEN hello_createErrorResponse(
                400, MsgInvalidJson, now)
        ELSE IF ReadThrows(requestBody)
        THEN Rejected
        ELSE LET userName == OrElse(requestBody.name, StrV(<<"World">>))
                 customMessage == OrElse(requestBody.message, StrV(<<"Hello">>))
             IN  Returned(200, helloHeaders,
                    [JsonBody EXCEPT
                       !.keys = {"message", "timestamp", "method",
                                 "receivedData", "functionName"},
                       !.message = ToStr(customMessage) \o <<" ">>
                                   \o ToStr(userName) \o <<"!">>,
                       !.timestamp = toISOString(now),
                       !.method = <<"POST">>,
                       !.receivedData = requestBody,
                       !.functionName = HelloFunctionName])

\* try { return p } catch { onCatch } in an async function: the promise p is
\* returned without await, so the function has left the try block before p
\* settles and a rejection of p never reaches the catch clause.
ReturnInTry(p, onCatch) == p

hello_handler(event, now) ==
    LET onCatch == hello_createErrorResponse(
                      500, MsgInternalError, now)
    IN  CASE event.httpMethod = "GET" ->
                ReturnInTry(handleGetRequest(event, now), onCatch)
          [] event.httpMethod = "POST" ->
                ReturnInTry(handlePostRequest(event, now), onCatch)
          [] OTHER ->
                hello_createErrorResponse(
                    405, MsgMethodNotAllowed, now)

-----------------------------------------------------------------------------
(* todo-processor/resource.ts                                              *)

MsgListOk == <<"The Todo items were fetched">>
MsgBodyRequired == <<"A request body is required">>
MsgContentRequired == <<"The content field is required and must be a string">>
MsgCreateOk == <<"The Todo item was created">>
MsgCreateFailed == <<"Creating the Todo item failed">>
MsgIdRequired == <<"The id of the Todo item is required">>
MsgUpdateOk == <<"The Todo item was updated">>
MsgUpdateFailed == <<"Updating the Todo item failed">>

\* A TodoItem; content and isDone are JavaScript values, the rest strings.
TodoItem(id, content, isDone, createdAt, updatedAt) ==
    [id |-> id, content |-> content, isDone |-> isDone,
     createdAt |-> createdAt, updatedAt |-> updatedAt]

\* Failure with the text put in message instead of error.
Failure_NoError(error) ==
    [JsonBody EXCEPT !.keys = {"success", "message"}, !.success = FALSE,
                     !.message = error]

\* TodoResponse {success: false, error}
Failure(error) ==
    [JsonBody EXCEPT !.keys = {"success", "error"}, !.success = FALSE,
                     !.error = error]

\* TodoResponse {success: true, data: item, message}
SuccessItem(item, message) ==
    [JsonBody EXCEPT !.keys = {"success", "data", "message"},
                     !.success = TRUE, !.dataKind = "item",
                     !.data = <<item>>, !.message = message]

\* TodoResponse {success: true, data: items, message}
SuccessList(items, message) ==
    [JsonBody EXCEPT !.keys = {"success", "data", "message"},
                     !.success = TRUE, !.dataKind = "list",
                     !.data = items, !.message = message]

\* TodoResponse {success: true, message}
SuccessMessage(message) ==
    [JsonBody EXCEPT !.keys = {"success", "message"}, !.success = TRUE,
                     !.message = message]

\* The promise of an async helper that returned result.
Fulfilled(result) == [outcome |-> "returned", value |-> result]

\* The promise of an async helper that threw.
Thrown == [outcome |-> "rejected", value |-> JsonBody]

\* handleGetTodos reading a store: the items created so far follow the mock
\* items.
handleGetTodos_Stateful(event, now) ==
    LET mockTodos ==
            <<TodoItem(<<"1">>, StrV(<<"Sample Todo 1">>), BoolV(FALSE),
                       toISOString(now), toISOString(now)),
              TodoItem(<<"2">>, StrV(<<"Sample Todo 2">>), BoolV(TRUE),
                       toISOString(now), toISOString(now))>>
        stored ==
            IF createdIds = {} THEN <<>>
            ELSE <<TodoItem(CHOOSE id \in createdIds : TRUE,
                            StrV(<<"stored">>), BoolV(FALSE),
                            toISOString(now), toISOString(now))>>
    IN  Fulfilled(SuccessList(mockTodos \o stored, MsgListOk))

handleGetTodos(event, now) ==
    LET mockTodos ==
            <<TodoItem(<<"1">>, StrV(<<"Sample Todo 1">>), BoolV(FALSE),
                       toISOString(now), toISOString(now)),
              TodoItem(<<"2">>, StrV(<<"Sample Todo 2">>), BoolV(TRUE),
                       toISOString(now), toISOString(now))>>
    IN  Fulfilled(SuccessList(mockTodos, MsgListOk))

\* String.prototype.substr(start, length)
substr(s, start, length) ==
    SubSeq(s, start + 1,
           IF start + length < Len(s) THEN start + length ELSE Len(s))

\* Number.prototype.toString(36) of a number in [0, 1) with fraction digits.
toString36(fraction) ==
    IF fraction = <<>> THEN <<"0">> ELSE <<"0", ".">> \o fraction

generateUniqueId(now, random) ==
    <<"todo-">> \o DecStr(now) \o <<"-">> \o substr(toString36(random), 2, 9)

\* handleCreateTodo without the typeof test of the validation.
handleCreateTodo_NoTypeCheck(event, now, random) ==
    IF ~BodyTruthy(event.body)
    THEN Fulfilled(Failure(MsgBodyRequired))
    ELSE LET todoData == JSONparse(event.body.text)
         IN  IF todoData.threw \/ ReadThrows(todoData)
             THEN Fulfilled(Failure(MsgCreateFailed))
             ELSE IF ~Truthy(todoData.content)
             THEN Fulfilled(Failure(MsgContentRequired))
             ELSE Fulfilled(SuccessItem(
                    TodoItem(generateUniqueId(now, random),
                             todoData.content,
                             OrElse(todoData.isDone, BoolV(FALSE)),
                             toISOString(now), toISOString(now)),
                    MsgCreateOk))

\* handleCreateTodo without its try/catch: an exception rejects the promise.
handleCreateTodo_NoCatch(event, now, random) ==
    IF ~BodyTruthy(event.body)
    THEN Fulfilled(Failure(MsgBodyRequired))
    ELSE LET todoData == JSONparse(event.body.text)
         IN  IF todoData.threw \/ ReadThrows(todoData)
             THEN Thrown
             ELSE IF ~Truthy(todoData.content) \/ todoData.content.t # "string"
             THEN Fulfilled(Failure(MsgContentRequired))
             ELSE Fulfilled(SuccessItem(
                    TodoItem(generateUniqueId(now, random),
                             todoData.content,
                             OrElse(todoData.isDone, BoolV(FALSE)),
                             toISOString(now), toISOString(now)),
                    MsgCreateOk))

handleCreateTodo(event, now, random) ==
    IF ~BodyTruthy(event.body)
    THEN Fulfilled(Failure(MsgBodyRequired))
    ELSE LET todoData == JSONparse(event.body.text)
         IN  IF todoData.threw \/ ReadThrows(todoData)
             THEN Fulfilled(Failure(MsgCreateFailed))
             ELSE IF ~Truthy(todoData.content) \/ todoData.content.t # "string"
             THEN Fulfilled(Failure(MsgContentRequired))
             ELSE Fulfilled(SuccessItem(
                    TodoItem(generateUniqueId(now, random),
                             todoData.content,
                             OrElse(todoData.isDone, BoolV(FALSE)),
                             toISOString(now), toISOString(now)),
                    MsgCreateOk))

\* handleUpdateTodo without the test of the path identifier.
handleUpdateTodo_NoIdCheck(event, now) ==
    LET todoId == OptChain(event.pathParameters, event.pathParameters.id)
    IN  IF ~BodyTruthy(event.body)
        THEN Fulfilled(Failure(MsgBodyRequired))
        ELSE LET updateData == JSONparse(event.body.text)
             IN  IF updateData.threw \/ ReadThrows(updateData)
                 THEN Fulfilled(Failure(MsgUpdateFailed))
                 ELSE Fulfilled(SuccessItem(
                        TodoItem(todoId.s,
                                 OrElse(updateData.content,
                                        StrV(<<"Default content">>)),
                                 OrElse(updateData.isDone, BoolV(FALSE)),
                                 <<"2024-01-01T00:00:00.000Z">>,
                                 toISOString(now)),
                        MsgUpdateOk))

handleUpdateTodo(event, now) ==
    LET todoId == OptChain(event.pathParameters, event.pathParameters.id)
    IN  IF ~Truthy(todoId)
        THEN Fulfilled(Failure(MsgIdRequired))
        ELSE IF ~BodyTruthy(event.body)
        THEN Fulfilled(Failure(MsgBodyRequired))
        ELSE LET updateData == JSONparse(event.body.text)
             IN  IF updateData.threw \/ ReadThrows(updateData)
                 THEN Fulfilled(Failure(MsgUpdateFailed))
                 ELSE Fulfilled(SuccessItem(
                        TodoItem(todoId.s,
                                 OrElse(updateData.content,
                                        StrV(<<"Default content">>)),
                                 OrElse(updateData.isDone, BoolV(FALSE)),
                                 <<"2024-01-01T00:00:00.000Z">>,
                                 toISOString(now)),
                        MsgUpdateOk))

handleDeleteTodo(event, now) ==
    LET todoId == OptChain(event.pathParameters, event.pathParameters.id)
    IN  IF ~Truthy(todoId)
        THEN Fulfilled(Failure(MsgIdRequired))
        ELSE Fulfilled(SuccessMessage(
                <<"Todo item (ID: ">> \o ToStr(todoId)
                \o <<") was deleted">>))

\* todo_createErrorResponse answering 400 whatever statusCode is.
todo_createErrorResponse_Fixed400(statusCode, message, headers, now) ==
    Returned(400, headers,
             [JsonBody EXCEPT
                !.keys = {"success", "error", "timestamp", "statusCode"},
                !.success = FALSE,
                !.error = message,
                !.timestamp = toISOString(now),
                !.statusCode = 400])

todo_createErrorResponse(statusCode, message, headers, now) ==
    Returned(statusCode, headers,
             [JsonBody EXCEPT
                !.keys = {"success", "error", "timestamp", "statusCode"},
                !.success = FALSE,
                !.error = message,
                !.timestamp = toISOString(now),
                !.statusCode = statusCode])

\* return {statusCode: result.success ? 200 : 400, headers, body}
ResultResponse(result) ==
    Returned(IF result.success THEN 200 ELSE 400, corsHeaders, result)

\* try { result = await p; return response(result) } catch { onCatch }:
\* a rejection of p is thrown inside the try block and caught.
AwaitInTry(p, onCatch) ==
    IF p.outcome = "rejected" THEN onCatch ELSE ResultResponse(p.value)

todo_handler(event, now, random) ==
    LET onCatch == todo_createErrorResponse(500, MsgInternalError,
                                            internalErrorHeaders, now)
        dispatch(p) == AwaitInTry(p, onCatch)
    IN  IF event.httpMethod = "OPTIONS"
        THEN Returned(200, corsHeaders, EmptyBody)
        ELSE CASE event.httpMethod = "GET" ->
                    dispatch(handleGetTodos(event, now))
               [] event.httpMethod = "POST" ->
                    dispatch(handleCreateTodo(event, now, random))
               [] event.httpMethod = "PUT" ->
                    dispatch(handleUpdateTodo(event, now))
               [] event.httpMethod = "DELETE" ->
                    dispatch(handleDeleteTodo(event, now))
               [] OTHER ->
                    todo_createErrorResponse(405, MsgMethodNotAllowed,
                                             corsHeaders, now)

-----------------------------------------------------------------------------
(* The state machine: one action per invocation of a handler               *)

Init ==
    /\ clock = 0
    /\ invoked = "none"
    /\ lastEvent = Event("GET", NoQuery, NoPath, NoBody)
    /\ lastResponse = NoResponse
    /\ createdIds = {}
    /\ idReissued = FALSE

\* The system clock advances by a millisecond.
Tick ==
    /\ clock < MaxClock
    /\ clock' = clock + 1
    /\ UNCHANGED <<invoked, lastEvent, lastResponse, createdIds, idReissued>>

\* The created item of a response of the Todo handler, if any.
CreatedIn(e, r) ==
    IF /\ e.httpMethod = "POST"
       /\ r.outcome = "returned"
       /\ r.body.dataKind = "item"
    THEN {r.body.data[1].id}
    ELSE {}

HelloInvoke ==
    \E e \in HelloEvents :
        /\ invoked' = "hello"
        /\ lastEvent' = e
        /\ lastResponse' = hello_handler(e, clock)
        /\ UNCHANGED <<clock, createdIds, idReissued>>

\* Math.random() is drawn only where generateUniqueId can run (a POST).
RandomDraws(e) ==
    IF e.httpMethod = "POST" THEN RandomFractions ELSE {<<"4">>}

TodoInvoke ==
    \E e \in TodoEvents : \E random \in RandomDraws(e) :
        /\ invoked' = "todo"
        /\ lastEvent' = e
        /\ lastResponse' = todo_handler(e, clock, random)
        /\ createdIds' = createdIds \cup CreatedIn(e, lastResponse')
        /\ idReissued' = (idReissued
                           \/ CreatedIn(e, lastResponse') \cap createdIds # {})
        /\ UNCHANGED clock

Next == Tick \/ HelloInvoke \/ TodoInvoke

Spec == Init /\ [][Next]_vars

-----------------------------------------------------------------------------
(* Properties                                                              *)

Method == lastEvent.httpMethod
Status == lastResponse.statusCode
Answered == lastResponse.outcome = "returned"

\* C1: for every event whose method is OPTIONS, both handlers return a
\* response with status 200 and an empty body.
C1_OptionsEmpty200 ==
    (invoked \in {"hello", "todo"} /\ Method = "OPTIONS")
        => (Answered /\ Status = 200 /\ lastResponse.body.text = "empty")

\* The POST requests of the greeting handler whose processing raises an
\* exception outside the inner try/catch: the body is JSON for null.
HelloPostRaises(e) ==
    e.httpMethod = "POST" /\ e.body.present /\ e.body.text = "null"

\* C2: in the greeting handler every exception raised while processing a GET
\* or POST request ends with a returned response of status 500; the handler
\* never ends by throwing or rejecting.
C2_ExceptionsYield500 ==
    (invoked = "hello" /\ Method \in {"GET", "POST"})
        => /\ Answered
           /\ HelloPostRaises(lastEvent) => Status = 500

\* C3: a request gets status 405 exactly when its method is unsupported:
\* other than GET and POST in the greeting handler, other than GET, POST,
\* PUT, DELETE and OPTIONS in the Todo handler.
C3_MethodNotAllowed ==
    /\ invoked = "hello"
        => ((Answered /\ Status = 405) <=> Method \notin {"GET", "POST"})
    /\ invoked = "todo"
        => ((Answered /\ Status = 405)
                <=> Method \notin {"GET", "POST", "PUT", "DELETE", "OPTIONS"})

C3_Witness ==
    /\ invoked = "todo" /\ Method = "PATCH" /\ Answered /\ Status = 405

\* The create requests that carry a non-empty string content.
ValidContentTexts ==
    {"{\"content\":\"milk\"}", "{\"content\":\"tea\",\"isDone\":true}"}

HasValidContent(e) == e.body.present /\ e.body.text \in ValidContentTexts

\* The content of a valid create request, as a string.
InputContent(e) ==
    IF e.body.text = "{\"content\":\"milk\"}" THEN <<"m", "i", "l", "k">>
    ELSE <<"t", "e", "a">>

\* C4: a Todo create whose content is empty or missing (absent body, no
\* content field, empty string, not a string) returns success=false and
\* fabricates no item.
C4_CreateRejectsBadContent ==
    (invoked = "todo" /\ Method = "POST" /\ ~HasValidContent(lastEvent))
        => /\ Answered
           /\ lastResponse.body.success = FALSE
           /\ lastResponse.body.dataKind = "absent"
           /\ "data" \notin lastResponse.body.keys

C4_Witness ==
    /\ invoked = "todo" /\ Method = "POST"
    /\ lastEvent.body = BodyOf("{\"content\":5}")
    /\ Answered /\ lastResponse.body.success = FALSE

\* C5: a Todo create with a non-empty string content returns success=true
\* with an item whose content is the input content and whose identifier is
\* non-empty, and no identifier is returned by two create calls.
C5_CreateUniqueIds ==
    /\ (invoked = "todo" /\ Method = "POST" /\ HasValidContent(lastEvent))
        => /\ Answered
           /\ lastResponse.body.success = TRUE
           /\ lastResponse.body.dataKind = "item"
           /\ lastResponse.body.data[1].content = StrV(InputContent(lastEvent))
           /\ lastResponse.body.data[1].id # <<>>
    /\ ~idReissued

\* The event has no path identifier.
NoPathId(e) ==
    \/ ~e.pathParameters.present
    \/ e.pathParameters.id.t = "undefined"
    \/ e.pathParameters.id = StrV(<<>>)

\* C6: a Todo update or delete without a path identifier returns
\* success=false whatever the body is, and a delete with a non-empty
\* identifier returns success=true with a message containing the identifier.
C6_PathIdRequired ==
    /\ (invoked = "todo" /\ Method \in {"PUT", "DELETE"} /\ NoPathId(lastEvent))
        => (Answered /\ lastResponse.body.success = FALSE)
    /\ (invoked = "todo" /\ Method = "DELETE" /\ ~NoPathId(lastEvent))
        => /\ Answered
           /\ lastResponse.body.success = TRUE
           /\ Contains(lastResponse.body.message, lastEvent.pathParameters.id.s)

C6_Witness ==
    /\ invoked = "todo" /\ Method = "PUT" /\ NoPathId(lastEvent)
    /\ HasValidContent(lastEvent)
    /\ Answered /\ lastResponse.body.success = FALSE

\* C7: every response envelope the Todo handler returns with success=false
\* has the error field and no data payload.
C7_FailureHasErrorNoData ==
    (invoked = "todo" /\ Answered /\ lastResponse.body.text = "json"
            /\ lastResponse.body.success = FALSE)
        => /\ "error" \in lastResponse.body.keys
           /\ lastResponse.body.error # <<>>
           /\ "data" \notin lastResponse.body.keys
           /\ lastResponse.body.dataKind = "absent"

C7_Witness ==
    /\ invoked = "todo" /\ Method = "POST" /\ lastEvent.body = BodyOf("{")
    /\ Answered /\ lastResponse.body.success = FALSE
    /\ "error" \in lastResponse.body.keys

\* C8: after any sequence of Todo requests a list request returns success=true
\* with the same two mock items in the same order (id '1' not done, then
\* id '2' done).
C8_ListIsFixed ==
    (invoked = "todo" /\ Method = "GET")
        => /\ Answered
           /\ lastResponse.body.success = TRUE
           /\ lastResponse.body.dataKind = "list"
           /\ Len(lastResponse.body.data) = 2
           /\ lastResponse.body.data[1].id = <<"1">>
           /\ lastResponse.body.data[1].content = StrV(<<"Sample Todo 1">>)
           /\ lastResponse.body.data[1].isDone = BoolV(FALSE)
           /\ lastResponse.body.data[2].id = <<"2">>
           /\ lastResponse.body.data[2].content = StrV(<<"Sample Todo 2">>)
           /\ lastResponse.body.data[2].isDone = BoolV(TRUE)

C8_Witness ==
    /\ invoked = "todo" /\ Method = "GET" /\ Answered
    /\ Cardinality(createdIds) >= 2
    /\ Len(lastResponse.body.data) = 2

\* The name a greeting GET is expected to use.
ExpectedName(e) ==
    IF /\ e.queryStringParameters.present
       /\ e.queryStringParameters.name.t = "string"
       /\ e.queryStringParameters.name.s # <<>>
    THEN e.queryStringParameters.name.s
    ELSE <<"World">>

\* C9: every GET request to the greeting handler returns status 200 with the
\* message 'Hello <name>!', <name> being the name query parameter verbatim
\* when present and non-empty and 'World' otherwise.
C9_GreetingGet ==
    (invoked = "hello" /\ Method = "GET")
        => /\ Answered
           /\ Status = 200
           /\ "message" \in lastResponse.body.keys
           /\ lastResponse.body.message
                = <<"Hello ">> \o ExpectedName(lastEvent) \o <<"!">>

C9_Witness ==
    /\ invoked = "hello" /\ Method = "GET" /\ Answered
    /\ lastEvent.queryStringParameters.name = StrV(<<"B", "o", "b">>)
    /\ Contains(lastResponse.body.message, <<"B", "o", "b">>)

\* C10: for every GET, POST, PUT or DELETE request the Todo handler returns
\* status 200 exactly when success=true and status 400 exactly when
\* success=false; a POST or PUT whose body is not parseable JSON gets status
\* 400 with success=false, never 500.
C10_StatusFollowsSuccess ==
    (invoked = "todo" /\ Method \in {"GET", "POST", "PUT", "DELETE"})
        => /\ Answered
           /\ (Status = 200) <=> (lastResponse.body.success = TRUE)
           /\ (Status = 400) <=> (lastResponse.body.success = FALSE)
           /\ (Method \in {"POST", "PUT"} /\ lastEvent.body = BodyOf("{"))
                => (Status = 400 /\ lastResponse.body.success = FALSE)

C10_Witness ==
    /\ invoked = "todo" /\ Method = "PUT" /\ ~NoPathId(lastEvent)
    /\ lastEvent.body = BodyOf("{")
    /\ Answered /\ Status = 400 /\ lastResponse.body.success = FALSE

====
